---- MODULE Spec2Model ----
(***************************************************************************)
(* A model of one client instance, a BitflyerWebsocket or a LiquidWebsocket *)
(* (both WebsocketBase subclasses): the connection lifecycle (start / stop *)
(* / _run / _onOpen / _onClose / _onError), the "last seen" timestamps,    *)
(* the cached ticker, the execution captures and the accessors.            *)
(*                                                                         *)
(* JavaScript runs every handler to completion on one event loop, so each  *)
(* action below is one synchronous turn: a call by the application, an     *)
(* event of the transport, a timer firing or a promise settling.           *)
(***************************************************************************)
EXTENDS Integers, Sequences, FiniteSets

\* ------------------------------------------------------------- bounds
\* start() is called at most MaxStarts times in a behaviour.
MaxStarts == 2
\* _run stops incrementing retryCount once it has reached MaxRetryCount.
MaxRetryCount == 5
\* The wall clock (moment().unix(), in seconds) runs from 1 to MaxNow.
MaxNow == 2
\* stop() calls counted since the last start().
MaxStops == 2
\* _onClose calls counted since the last start().
MaxCloses == 2
\* Listener registrations counted per transport (the count saturates there).
MaxListeners == 2
\* Execution payloads delivered in a behaviour while a window is open.
MaxIngest == 2

\* ------------------------------------------------------------- JavaScript values
\* null / a value, as a sequence of length 0 / 1.
None == << >>
Some(x) == <<x>>
\* A property that is never assigned reads as undefined.
Undefined == "undefined"
\* a >= b in JavaScript: undefined converts to NaN, and every comparison with
\* NaN is false.
JsGreaterEq(a, b) ==
  IF a = Undefined \/ b = Undefined THEN FALSE ELSE a >= b
\* Truthiness of a nullable number: null and 0 are falsy.
Truthy(t) == t # None /\ t[1] # 0
\* Math.max of two numbers.
MathMax(a, b) == IF a >= b THEN a ELSE b
\* The outcome of a call: the value returned, or a TypeError thrown.
Returned(v) == [threw |-> FALSE, value |-> v]
Thrown == [threw |-> TRUE, value |-> 0]

\* ------------------------------------------------------------- program constants
retryConnectLimit == 3
retryConnectInterval == 10000
\* _onClose reads this.retry_count and this.retry_connect_limit; no code ever
\* assigns these two properties (the fields are retryCount, retryConnectLimit).
this_retry_count == Undefined
this_retry_connect_limit == Undefined

VARIABLES
  adapter,               \* the class of the instance: "Bitflyer" or "Liquid"
  status,                \* this.status: "null" before the first start()
  ws,                    \* this.ws: None, or Some(id of the socket)
  retry,                 \* this.retry
  retryCount,            \* this.retryCount
  lastMessageTimestamp,  \* nullable, seconds
  lastTickerTimestamp,   \* nullable, seconds
  lastExecutionTimestamp,\* nullable, seconds
  tickerInitialized,     \* this.tickerInitialized
  lastTicker,            \* this.lastTicker: None, or Some(ticker record)
  now,                   \* moment().unix()
  fetchPc,               \* the constructor's _fetchTicker: "pending", "done", "failed"
  runPc,                 \* runPc[i]: the _run loop of the i-th start():
                         \*   "idle" (not started), "sleeping" (awaiting sleep), "exited"
  starts,                \* number of start() calls so far
  sockets,               \* number of sockets io() has created
  listeners,             \* listeners[s]: how many times _subscribe has registered
                         \*   its channel listeners on transport s (a Bitflyer
                         \*   socket; 1 is also Liquid's one TapClient), saturating
                         \*   at MaxListeners
  executionCaptures,     \* this.executionCaptures: captureId -> window
  \* history variables (no code reads them)
  sleepK,                \* retryCount at the most recent sleep.sleep call (0: none yet)
  sleepMs,               \* the argument of the most recent sleep.sleep call
  backoffAfterInit,      \* _initializeWebsocket ran between the previous backoff (or
                         \*   start()) and the most recent one
  closeCalls,            \* _onClose calls since the last start(), saturating at MaxCloses
  errorSeen,             \* _onError was called since the last start()
  stopCalls,             \* stop() calls since the last start(), saturating at MaxStops
  startOutcome,          \* what the last start() call did: "none" (no call yet),
                         \*   "returned" or "threw"
  ingested,              \* execution payloads delivered while a window was open
  captureCalls,          \* captureCalls[id]: what the last createExecutionCapture(id)
                         \*   or removeExecutionCapture(id) call found: "none" (no
                         \*   call yet), "created" (no window for id), "replaced" (a
                         \*   window for id), "removed" (a window), "absent" (none)
  captureHistory         \* captureHistory[id], for each window: its seed; of the
                         \*   executions handed to _updateExecutionCaptures since it
                         \*   was created: how many, highest, lowest and last price,
                         \*   summed buy and sell quantities; of the payloads that
                         \*   arrived since: summed buy and sell quantities

lifecycleVars == <<adapter, status, ws, retry, retryCount, runPc, starts, sockets,
                   listeners>>
timeVars == <<lastMessageTimestamp, lastTickerTimestamp, lastExecutionTimestamp, now>>
tickerVars == <<tickerInitialized, lastTicker, fetchPc>>
historyVars == <<sleepK, sleepMs, backoffAfterInit, closeCalls, errorSeen, stopCalls,
                 startOutcome>>
captureVars == <<executionCaptures, captureHistory, captureCalls, ingested>>
vars == <<lifecycleVars, timeVars, tickerVars, captureVars, historyVars>>

Loops == 1..MaxStarts
\* The transports: every successful start() of a Bitflyer client makes one.
Transports == 1..MaxStarts
Adapters == {"Bitflyer", "Liquid"}

\* ------------------------------------------------------------- inbound data
\* moment(x).unix(): the instant x, given here in milliseconds since the
\* epoch, as whole seconds.
MomentUnix(ms) == ms \div 1000

Prices == {100, 105}
\* The ticker payloads that can arrive at clock value t (REST response or
\* channel message): stamped the previous second, this second, or (the
\* exchange's clock running ahead) the next second.
TickerMsgs(t) ==
  { [timestamp |-> ms, ltp |-> p, best_ask |-> p + 1, best_bid |-> p - 1,
     best_ask_size |-> 2, best_bid_size |-> 3] :
      ms \in {t * 1000 - 500, t * 1000 + 250, t * 1000 + 1000}, p \in Prices }

\* The ticker record _saveTicker stores at clock value t.
SaveTicker(t, tickerTimestamp, ltp, askPrice, bidPrice, askSize, bidSize) ==
  [timestamp |-> tickerTimestamp, ltp |-> ltp, ask_price |-> askPrice,
   bid_price |-> bidPrice, ask_size |-> askSize, bid_size |-> bidSize,
   latency |-> t * 1000 - tickerTimestamp * 1000]

\* BitflyerWebsocket._updateTicker: the record it stores for payload m.
UpdateTicker(t, m) ==
  SaveTicker(t, MomentUnix(m.timestamp), m.ltp, m.best_ask, m.best_bid,
             m.best_ask_size, m.best_bid_size)

\* ------------------------------------------------------------- execution captures
CaptureIds == {"A", "B"}
EmptyCaptures == [id \in {} |-> None]

\* A nullable number converted by a JavaScript relational operator: null is 0.
ToNumber(x) == IF x = None THEN 0 ELSE x[1]
\* x == 0 in JavaScript for a nullable number x: null == 0 is false.
LooseEqZero(x) == x # None /\ x[1] = 0

\* createExecutionCapture: the freshly seeded window.
NewCapture(ticker) ==
  LET price == IF ticker # None THEN Some(ticker[1].ltp) ELSE None
  IN [start |-> None, end |-> None, open |-> price, high |-> price,
      low |-> price, close |-> price, buy_volume |-> 0, sell_volume |-> 0,
      filled |-> 0]

\* The loop body with a plain else for the sell branch: every execution that
\* is not a BUY counts as a sell.
UpdateWindowElseSells(w, e) ==
  [start |-> IF ~Truthy(w.start) THEN Some(e.exec_date) ELSE w.start,
   end |-> Some(e.exec_date),
   open |-> IF LooseEqZero(w.open) THEN Some(e.price) ELSE w.open,
   high |-> IF ToNumber(w.high) < e.price THEN Some(e.price) ELSE w.high,
   low |-> IF ToNumber(w.low) > e.price THEN Some(e.price) ELSE w.low,
   close |-> Some(e.price),
   buy_volume |-> IF e.side = "BUY" THEN w.buy_volume + e.size ELSE w.buy_volume,
   sell_volume |-> IF e.side # "BUY" THEN w.sell_volume + e.size ELSE w.sell_volume,
   filled |-> w.filled]

\* The body of the for-in loop of BitflyerWebsocket._updateExecutionCaptures:
\* window w after execution e.
UpdateWindow(w, e) ==
  [start |-> IF ~Truthy(w.start) THEN Some(e.exec_date) ELSE w.start,
   end |-> Some(e.exec_date),
   open |-> IF LooseEqZero(w.open) THEN Some(e.price) ELSE w.open,
   high |-> IF ToNumber(w.high) < e.price THEN Some(e.price) ELSE w.high,
   low |-> IF ToNumber(w.low) > e.price THEN Some(e.price) ELSE w.low,
   close |-> Some(e.price),
   buy_volume |-> IF e.side = "BUY" THEN w.buy_volume + e.size ELSE w.buy_volume,
   sell_volume |-> IF e.side = "SELL" THEN w.sell_volume + e.size ELSE w.sell_volume,
   filled |-> w.filled]

\* filled of the window named id, if there is one, grows by size.
AddFilled(caps, id, size) ==
  IF id \in DOMAIN caps
  THEN [caps EXCEPT ![id] = [@ EXCEPT !.filled = @ + size]]
  ELSE caps

\* One pass of the outer loop of _updateExecutionCaptures: execution e.
ApplyExecution(caps, e) ==
  LET matched == AddFilled(AddFilled(caps, e.buy_child_order_acceptance_id, e.size),
                           e.sell_child_order_acceptance_id, e.size)
  IN [key \in DOMAIN matched |-> UpdateWindow(matched[key], e)]

\* BitflyerWebsocket._updateExecutionCaptures on a list of executions.
RECURSIVE UpdateExecutionCaptures(_, _)
UpdateExecutionCaptures(caps, executions) ==
  IF executions = << >> THEN caps
  ELSE UpdateExecutionCaptures(ApplyExecution(caps, Head(executions)),
                               Tail(executions))

\* The executions that can arrive at clock value t.
Executions(t) ==
  [price : Prices, size : {2}, side : {"BUY", "SELL"}, exec_date : {t},
   buy_child_order_acceptance_id : {"A"},
   sell_child_order_acceptance_id : {"S"}]
\* The payloads of the executions channel: lists of one or two executions.
ExecutionMsgs(t) ==
  { <<e>> : e \in Executions(t) }
    \cup { <<e1, e2>> : e1 \in Executions(t), e2 \in Executions(t) }

\* The handler runs once per registered listener: n runs on one payload.
RECURSIVE DispatchExecutions(_, _, _)
DispatchExecutions(caps, executions, n) ==
  IF n = 0 THEN caps
  ELSE DispatchExecutions(UpdateExecutionCaptures(caps, executions), executions, n - 1)

\* The executions that can arrive while a window is open: above and below the
\* ticker prices, and with a side tag that is neither BUY nor SELL.
WindowExecutions(t) ==
  [price : {95, 105}, size : {2}, side : {"BUY", "SELL", ""}, exec_date : {t},
   buy_child_order_acceptance_id : {"A"},
   sell_child_order_acceptance_id : {"S"}]
\* Their payloads: one execution, or a buy at the higher price followed by a
\* sell at the lower one.
WindowExecutionMsgs(t) ==
  { <<e>> : e \in WindowExecutions(t) }
    \cup { x \in WindowExecutions(t) \X WindowExecutions(t) :
             /\ x[1].side = "BUY" /\ x[1].price = 105
             /\ x[2].side = "SELL" /\ x[2].price = 95 }

\* ------------------------------------------------------------- Liquid payloads
\* The ticker payload of Liquid's product channel, as JSON.parse returns it.
LiquidTickerMsgs ==
  { [last_traded_price |-> 100, market_ask |-> 101, market_bid |-> 99] }

\* LiquidWebsocket._updateTicker: the record it stores for payload m.
LiquidUpdateTicker(t, m) ==
  SaveTicker(t, t, m.last_traded_price, m.market_ask, m.market_bid, 0, 0)

\* The payloads of Liquid's executions channel: one execution each.
LiquidExecutions(t) ==
  [price : {95, 105}, quantity : {2}, taker_side : {"buy", "sell", ""},
   created_at : {t}]

\* The body of the for-in loop of LiquidWebsocket._updateExecutionCaptures.
LiquidUpdateWindow(w, e) ==
  [start |-> IF ~Truthy(w.start) THEN Some(e.created_at) ELSE w.start,
   end |-> Some(e.created_at),
   open |-> IF LooseEqZero(w.open) THEN Some(e.price) ELSE w.open,
   high |-> IF ToNumber(w.high) < 0 THEN Some(e.price) ELSE w.high,
   low |-> IF ToNumber(w.low) > 0 THEN Some(e.price) ELSE w.low,
   close |-> Some(e.price),
   buy_volume |-> IF e.taker_side = "buy"
                  THEN w.buy_volume + e.quantity ELSE w.buy_volume,
   sell_volume |-> IF e.taker_side = "sell"
                   THEN w.sell_volume + e.quantity ELSE w.sell_volume,
   filled |-> w.filled]

\* LiquidWebsocket._updateExecutionCaptures on one execution.
LiquidUpdateExecutionCaptures(caps, e) ==
  [key \in DOMAIN caps |-> LiquidUpdateWindow(caps[key], e)]

RECURSIVE LiquidDispatchExecution(_, _, _)
LiquidDispatchExecution(caps, e, n) ==
  IF n = 0 THEN caps
  ELSE LiquidDispatchExecution(LiquidUpdateExecutionCaptures(caps, e), e, n - 1)

\* ------------------------------------------------------------- what a window has seen
\* An execution of either adapter as a trade: price, quantity and taker side.
BitflyerTrade(e) ==
  [price |-> e.price, qty |-> e.size,
   side |-> IF e.side = "BUY" THEN "buy" ELSE IF e.side = "SELL" THEN "sell" ELSE "other"]
LiquidTrade(e) ==
  [price |-> e.price, qty |-> e.quantity,
   side |-> IF e.taker_side \in {"buy", "sell"} THEN e.taker_side ELSE "other"]
RECURSIVE BitflyerTrades(_)
BitflyerTrades(executions) ==
  IF executions = << >> THEN << >>
  ELSE <<BitflyerTrade(Head(executions))>> \o BitflyerTrades(Tail(executions))

\* The record kept for a window seeded with seed.
NewHistory(seed) ==
  [seed |-> seed, count |-> 0, highest |-> seed, lowest |-> seed, last |-> seed,
   buy |-> 0, sell |-> 0, msgBuy |-> 0, msgSell |-> 0]

\* Trade x was handed to the update of the window with record h.
LogTrade(h, x) ==
  [h EXCEPT !.count = @ + 1,
            !.highest = IF @ = None \/ @[1] < x.price THEN Some(x.price) ELSE @,
            !.lowest = IF @ = None \/ @[1] > x.price THEN Some(x.price) ELSE @,
            !.last = Some(x.price),
            !.buy = IF x.side = "buy" THEN @ + x.qty ELSE @,
            !.sell = IF x.side = "sell" THEN @ + x.qty ELSE @]
RECURSIVE LogTrades(_, _)
LogTrades(h, trades) ==
  IF trades = << >> THEN h ELSE LogTrades(LogTrade(h, Head(trades)), Tail(trades))
RECURSIVE LogRuns(_, _, _)
LogRuns(h, trades, n) ==
  IF n = 0 THEN h ELSE LogRuns(LogTrades(h, trades), trades, n - 1)
\* The quantity the trades of one payload carry for side.
RECURSIVE SideQty(_, _)
SideQty(trades, side) ==
  IF trades = << >> THEN 0
  ELSE (IF Head(trades).side = side THEN Head(trades).qty ELSE 0)
         + SideQty(Tail(trades), side)
\* A payload carrying trades arrived and its handler ran n times.
LogPayload(hist, trades, n) ==
  [id \in DOMAIN hist |->
     [LogRuns(hist[id], trades, n) EXCEPT
        !.msgBuy = @ + SideQty(trades, "buy"),
        !.msgSell = @ + SideQty(trades, "sell")]]

\* ------------------------------------------------------------- constructor
\* WebsocketBase's constructor, then the subclass's. BitflyerWebsocket's calls
\* _fetchTicker without await (the REST request is in flight); both set
\* tickerInitialized.
Constructed(a) ==
  /\ adapter = a
  /\ status = "null"
  /\ ws = None
  /\ retry = TRUE
  /\ retryCount = 0
  /\ lastMessageTimestamp = None
  /\ lastTickerTimestamp = None
  /\ lastExecutionTimestamp = None
  /\ tickerInitialized = TRUE
  /\ lastTicker = None
  /\ now = 1
  /\ fetchPc = IF a = "Bitflyer" THEN "pending" ELSE "none"
  /\ runPc = [i \in Loops |-> "idle"]
  /\ starts = 0
  /\ sockets = 0
  /\ listeners = [s \in Transports |-> 0]
  /\ executionCaptures = EmptyCaptures
  /\ captureHistory = EmptyCaptures
  /\ captureCalls = [id \in CaptureIds |-> "none"]
  /\ ingested = 0
  /\ sleepK = 0
  /\ sleepMs = 0
  /\ backoffAfterInit = TRUE
  /\ closeCalls = 0
  /\ errorSeen = FALSE
  /\ stopCalls = 0
  /\ startOutcome = "none"

\* A BitflyerWebsocket after construction.
Init == Constructed("Bitflyer")
\* A client of either class after construction.
InitAny == \E a \in Adapters : Constructed(a)

\* ------------------------------------------------------------- retry loop
\* sleepTime of _run for retryCount = k.
SleepTime(k) == k * retryConnectInterval + 100
\* The argument _run hands to sleep.sleep, which passes it to setTimeout.
SleepArg(k) == SleepTime(k) * 1000

\* _run with the retry limit as its loop condition instead of the retry flag.
RunIterationUntilLimit(i, r, c, inited) ==
  IF c < retryConnectLimit
  THEN /\ retryCount' = c + 1
       /\ sleepK' = c + 1
       /\ sleepMs' = SleepArg(c + 1)
       /\ backoffAfterInit' = inited
       /\ runPc' = [runPc EXCEPT ![i] = "sleeping"]
  ELSE /\ retryCount' = c
       /\ runPc' = [runPc EXCEPT ![i] = "exited"]
       /\ UNCHANGED <<sleepK, sleepMs, backoffAfterInit>>

\* One pass of _run's while loop by loop i, reading retry as r and retryCount
\* as c: either the next backoff begins, or the loop breaks. inited tells
\* whether _initializeWebsocket ran since the previous backoff began.
RunIteration(i, r, c, inited) ==
  IF r
  THEN /\ retryCount' = c + 1
       /\ sleepK' = c + 1
       /\ sleepMs' = SleepArg(c + 1)
       /\ backoffAfterInit' = inited
       /\ runPc' = [runPc EXCEPT ![i] = "sleeping"]
  ELSE /\ retryCount' = c
       /\ runPc' = [runPc EXCEPT ![i] = "exited"]
       /\ UNCHANGED <<sleepK, sleepMs, backoffAfterInit>>

\* The timer of loop i fires: the sleep promise resolves and _run continues
\* with its next pass (the loop body calls nothing but the logger and sleep).
SleepDone(i) ==
  /\ runPc[i] = "sleeping"
  /\ retry => retryCount < MaxRetryCount
  /\ RunIteration(i, retry, retryCount, FALSE)
  /\ UNCHANGED <<adapter, status, ws, retry, starts, sockets, listeners>>
  /\ UNCHANGED <<timeVars, tickerVars, captureVars, closeCalls, errorSeen, stopCalls>>
  /\ UNCHANGED startOutcome

\* ------------------------------------------------------------- start / stop
\* start() with only _initializeWebsocket inside the try block: the error is
\* logged and rethrown after _run has begun its first backoff.
StartRunsAfterInitFailure(initThrows) ==
  /\ adapter = "Bitflyer"
  /\ starts < MaxStarts
  /\ starts' = starts + 1
  /\ retry' = TRUE
  /\ lastMessageTimestamp' = None
  /\ lastTickerTimestamp' = None
  /\ lastExecutionTimestamp' = None
  /\ closeCalls' = 0
  /\ errorSeen' = FALSE
  /\ stopCalls' = 0
  /\ IF initThrows
     THEN /\ ws' = None
          /\ RunIteration(starts + 1, TRUE, 0, FALSE)
          /\ status' = "Initializing"
          /\ startOutcome' = "threw"
          /\ UNCHANGED sockets
     ELSE /\ sockets' = sockets + 1
          /\ ws' = Some(sockets + 1)
          /\ RunIteration(starts + 1, TRUE, 0, TRUE)
          /\ status' = "Terminated"
          /\ startOutcome' = "returned"
  /\ UNCHANGED <<adapter, listeners, now, tickerVars, captureVars>>

\* start(): the resets, _initializeWebsocket (io() may throw: initThrows), the
\* synchronous part of the un-awaited _run (its first pass, up to the await),
\* then status = "Terminated".
Start(initThrows) ==
  /\ adapter = "Bitflyer"
  /\ starts < MaxStarts
  /\ starts' = starts + 1
  /\ retry' = TRUE
  /\ lastMessageTimestamp' = None
  /\ lastTickerTimestamp' = None
  /\ lastExecutionTimestamp' = None
  /\ closeCalls' = 0
  /\ errorSeen' = FALSE
  /\ stopCalls' = 0
  /\ IF initThrows
     THEN /\ status' = "Initializing"
          /\ ws' = None
          /\ retryCount' = 0
          /\ startOutcome' = "threw"
          /\ UNCHANGED <<runPc, sockets, sleepK, sleepMs, backoffAfterInit>>
     ELSE /\ sockets' = sockets + 1
          /\ ws' = Some(sockets + 1)
          /\ RunIteration(starts + 1, TRUE, 0, TRUE)
          /\ status' = "Terminated"
          /\ startOutcome' = "returned"
  /\ UNCHANGED <<adapter, listeners, now, tickerVars, captureVars>>

\* stop(): this.retry = false (the ws.close() call is commented out).
Stop ==
  /\ retry' = FALSE
  /\ stopCalls' = IF stopCalls < MaxStops THEN stopCalls + 1 ELSE stopCalls
  /\ UNCHANGED <<adapter, status, ws, retryCount, runPc, starts, sockets, listeners>>
  /\ UNCHANGED <<timeVars, tickerVars, captureVars>>
  /\ UNCHANGED <<sleepK, sleepMs, backoffAfterInit, closeCalls, errorSeen, startOutcome>>

\* ------------------------------------------------------------- transport events
\* _subscribe registers one more listener per channel on transport s.
Subscribe(s) ==
  [listeners EXCEPT ![s] = IF @ < MaxListeners THEN @ + 1 ELSE @]

\* The "connect" event of a socket (socket.io emits it on every connect and
\* reconnect): BitflyerWebsocket._onOpen, that is WebsocketBase._onOpen and
\* then _subscribe, which registers on this.ws. _subscribe starts with
\* this.ws.emit, which throws when this.ws is null (a later start() whose
\* io() threw), before any channel listener is registered.
OnOpen ==
  /\ sockets > 0
  /\ lastMessageTimestamp' = None
  /\ lastTickerTimestamp' = None
  /\ lastExecutionTimestamp' = None
  /\ status' = "Connected"
  /\ listeners' = IF ws = None THEN listeners ELSE Subscribe(ws[1])
  /\ UNCHANGED <<adapter, ws, retry, retryCount, runPc, starts, sockets, now>>
  /\ UNCHANGED <<tickerVars, captureVars, historyVars>>

\* _onError under _onClose's policy: retries end only at the retry limit.
OnErrorCountsTowardLimit ==
  /\ sockets > 0
  /\ retry' = IF retryCount >= retryConnectLimit THEN FALSE ELSE retry
  /\ errorSeen' = TRUE
  /\ UNCHANGED <<adapter, status, ws, retryCount, runPc, starts, sockets, listeners>>
  /\ UNCHANGED <<timeVars, tickerVars, captureVars>>
  /\ UNCHANGED <<sleepK, sleepMs, backoffAfterInit, closeCalls, stopCalls, startOutcome>>

\* WebsocketBase._onError.
OnError ==
  /\ sockets > 0
  /\ retry' = FALSE
  /\ errorSeen' = TRUE
  /\ UNCHANGED <<adapter, status, ws, retryCount, runPc, starts, sockets, listeners>>
  /\ UNCHANGED <<timeVars, tickerVars, captureVars>>
  /\ UNCHANGED <<sleepK, sleepMs, backoffAfterInit, closeCalls, stopCalls, startOutcome>>

\* WebsocketBase._onClose.
OnClose ==
  /\ sockets > 0
  /\ retry' = IF JsGreaterEq(this_retry_count, this_retry_connect_limit)
               THEN FALSE ELSE retry
  /\ status' = "Disconnected"
  /\ closeCalls' = IF closeCalls < MaxCloses THEN closeCalls + 1 ELSE closeCalls
  /\ UNCHANGED <<adapter, ws, retryCount, runPc, starts, sockets, listeners>>
  /\ UNCHANGED <<timeVars, tickerVars, captureVars>>
  /\ UNCHANGED <<sleepK, sleepMs, backoffAfterInit, errorSeen, stopCalls, startOutcome>>

\* A payload on the ticker channel of socket s: every listener registered
\* there runs BitflyerWebsocket._onMessage, that is WebsocketBase._onMessage
\* and then _onGetTicker (running it again stores the same values).
OnTickerMessage(m) ==
  /\ adapter = "Bitflyer"
  /\ \E s \in Transports : listeners[s] > 0
  /\ lastMessageTimestamp' = Some(now)
  /\ lastTickerTimestamp' = Some(now)
  /\ lastTicker' = Some(UpdateTicker(now, m))
  /\ UNCHANGED <<lifecycleVars, lastExecutionTimestamp, now, tickerInitialized, fetchPc>>
  /\ UNCHANGED <<captureVars, historyVars>>

\* A payload on the executions channel of socket s: every listener registered
\* there runs BitflyerWebsocket._onMessage, that is WebsocketBase._onMessage
\* and then _onGetExecutions.
OnExecutionsMessage(executions) ==
  /\ adapter = "Bitflyer"
  /\ executionCaptures # EmptyCaptures => ingested < MaxIngest
  /\ \E s \in Transports :
       /\ listeners[s] > 0
       /\ executionCaptures' =
            DispatchExecutions(executionCaptures, executions, listeners[s])
       /\ captureHistory' =
            LogPayload(captureHistory, BitflyerTrades(executions), listeners[s])
  /\ lastMessageTimestamp' = Some(now)
  /\ lastExecutionTimestamp' = Some(now)
  /\ ingested' = IF executionCaptures # EmptyCaptures THEN ingested + 1 ELSE ingested
  /\ UNCHANGED captureCalls
  /\ UNCHANGED <<lifecycleVars, lastTickerTimestamp, now, tickerVars, historyVars>>

\* ------------------------------------------------------------- Liquid
\* start() of a LiquidWebsocket: its _initializeWebsocket is _subscribe, which
\* binds the callbacks once more on the one TapClient and leaves status and
\* this.ws alone (tap.subscribe may throw: initThrows).
LiquidStart(initThrows) ==
  /\ adapter = "Liquid"
  /\ starts < MaxStarts
  /\ starts' = starts + 1
  /\ ws' = None
  /\ retry' = TRUE
  /\ lastMessageTimestamp' = None
  /\ lastTickerTimestamp' = None
  /\ lastExecutionTimestamp' = None
  /\ closeCalls' = 0
  /\ errorSeen' = FALSE
  /\ stopCalls' = 0
  /\ IF initThrows
     THEN /\ retryCount' = 0
          /\ startOutcome' = "threw"
          /\ UNCHANGED <<status, listeners, runPc, sleepK, sleepMs, backoffAfterInit>>
     ELSE /\ listeners' = Subscribe(1)
          /\ RunIteration(starts + 1, TRUE, 0, TRUE)
          /\ status' = "Terminated"
          /\ startOutcome' = "returned"
  /\ UNCHANGED <<adapter, sockets, now, tickerVars, captureVars>>

\* An "updated" event of Liquid's product channel: every bound callback runs
\* _onGetTicker directly (running it again stores the same values).
LiquidOnTicker(m) ==
  /\ adapter = "Liquid"
  /\ listeners[1] > 0
  /\ lastTickerTimestamp' = Some(now)
  /\ lastTicker' = Some(LiquidUpdateTicker(now, m))
  /\ UNCHANGED <<lifecycleVars, lastMessageTimestamp, lastExecutionTimestamp, now>>
  /\ UNCHANGED <<tickerInitialized, fetchPc, captureVars, historyVars>>

\* A "created" event of Liquid's executions channel: every bound callback
\* runs LiquidWebsocket._onMessage, that is WebsocketBase._onMessage and then
\* _onGetExecutions.
LiquidOnExecution(e) ==
  /\ adapter = "Liquid"
  /\ listeners[1] > 0
  /\ executionCaptures # EmptyCaptures => ingested < MaxIngest
  /\ lastMessageTimestamp' = Some(now)
  /\ lastExecutionTimestamp' = Some(now)
  /\ executionCaptures' = LiquidDispatchExecution(executionCaptures, e, listeners[1])
  /\ captureHistory' = LogPayload(captureHistory, <<LiquidTrade(e)>>, listeners[1])
  /\ ingested' = IF executionCaptures # EmptyCaptures THEN ingested + 1 ELSE ingested
  /\ UNCHANGED captureCalls
  /\ UNCHANGED <<lifecycleVars, lastTickerTimestamp, now, tickerVars, historyVars>>

\* ------------------------------------------------------------- REST bootstrap
\* axios.get resolves: _fetchTicker continues with _updateTicker(ticker.data).
FetchResolve(m) ==
  /\ fetchPc = "pending"
  /\ fetchPc' = "done"
  /\ lastTicker' = Some(UpdateTicker(now, m))
  /\ UNCHANGED <<lifecycleVars, timeVars, tickerInitialized, captureVars, historyVars>>

\* axios.get rejects: _fetchTicker logs the error.
FetchReject ==
  /\ fetchPc = "pending"
  /\ fetchPc' = "failed"
  /\ UNCHANGED <<lifecycleVars, timeVars, tickerInitialized, lastTicker>>
  /\ UNCHANGED <<captureVars, historyVars>>

\* ------------------------------------------------------------- captures
\* A createExecutionCapture that keeps the window an id already has.
CreateKeepsExisting(captureId) ==
  /\ executionCaptures' =
       [id \in DOMAIN executionCaptures \cup {captureId} |->
          IF id \in DOMAIN executionCaptures
          THEN executionCaptures[id] ELSE NewCapture(lastTicker)]
  /\ captureHistory' =
       [id \in DOMAIN captureHistory \cup {captureId} |->
          IF id \in DOMAIN captureHistory
          THEN captureHistory[id]
          ELSE NewHistory(IF lastTicker # None THEN Some(lastTicker[1].ltp) ELSE None)]
  /\ captureCalls' =
       [captureCalls EXCEPT ![captureId] =
          IF captureId \in DOMAIN executionCaptures THEN "replaced" ELSE "created"]
  /\ UNCHANGED <<lifecycleVars, timeVars, tickerVars, historyVars, ingested>>

CreateExecutionCapture(captureId) ==
  /\ executionCaptures' =
       [id \in DOMAIN executionCaptures \cup {captureId} |->
          IF id = captureId THEN NewCapture(lastTicker) ELSE executionCaptures[id]]
  /\ captureHistory' =
       [id \in DOMAIN captureHistory \cup {captureId} |->
          IF id = captureId
          THEN NewHistory(IF lastTicker # None THEN Some(lastTicker[1].ltp) ELSE None)
          ELSE captureHistory[id]]
  /\ captureCalls' =
       [captureCalls EXCEPT ![captureId] =
          IF captureId \in DOMAIN executionCaptures THEN "replaced" ELSE "created"]
  /\ UNCHANGED <<lifecycleVars, timeVars, tickerVars, historyVars, ingested>>

\* A removeExecutionCapture that resets the whole table.
RemoveClearsAll(captureId) ==
  /\ executionCaptures' = EmptyCaptures
  /\ captureHistory' = EmptyCaptures
  /\ captureCalls' =
       [captureCalls EXCEPT ![captureId] =
          IF captureId \in DOMAIN executionCaptures THEN "removed" ELSE "absent"]
  /\ UNCHANGED <<lifecycleVars, timeVars, tickerVars, historyVars, ingested>>

RemoveExecutionCapture(captureId) ==
  /\ executionCaptures' =
       [id \in DOMAIN executionCaptures \ {captureId} |-> executionCaptures[id]]
  /\ captureHistory' =
       [id \in DOMAIN captureHistory \ {captureId} |-> captureHistory[id]]
  /\ captureCalls' =
       [captureCalls EXCEPT ![captureId] =
          IF captureId \in DOMAIN executionCaptures THEN "removed" ELSE "absent"]
  /\ UNCHANGED <<lifecycleVars, timeVars, tickerVars, historyVars, ingested>>

\* getExecutionCapture: the window, or null.
GetExecutionCapture(captureId) ==
  IF captureId \in DOMAIN executionCaptures
  THEN Some(executionCaptures[captureId]) ELSE None

\* ------------------------------------------------------------- clock
\* A second passes.
Tick ==
  /\ now < MaxNow
  /\ now' = now + 1
  /\ UNCHANGED <<lifecycleVars, lastMessageTimestamp, lastTickerTimestamp,
                 lastExecutionTimestamp, tickerVars, captureVars, historyVars>>

\* ------------------------------------------------------------- accessors
IsAvailable == status = "Connected" /\ tickerInitialized

GetTicker == lastTicker

GetMillisecondFromLastMessage ==
  IF Truthy(lastMessageTimestamp)
  THEN now * 1000 - lastMessageTimestamp[1] * 1000
  ELSE 0

\* getLatency: getTicker()["latency"] throws a TypeError when the cached
\* ticker is null.
GetLatency ==
  IF GetTicker = None
  THEN Thrown
  ELSE Returned(MathMax(GetTicker[1].latency, GetMillisecondFromLastMessage))

\* ------------------------------------------------------------- specifications
\* The lifecycle of a client whose application creates no execution capture:
\* no window reads the prices, so one price stands for all and one execution
\* per payload for all payloads; the tickers arrive early, on time and late.
OnePriceTickerMsgs(t) == { m \in TickerMsgs(t) : m.ltp = 100 }
SingleExecutionMsgs(t) == { x \in ExecutionMsgs(t) : Len(x) = 1 }

Next ==
  \/ \E initThrows \in BOOLEAN : Start(initThrows)
  \/ Stop
  \/ \E i \in Loops : SleepDone(i)
  \/ OnOpen
  \/ OnError
  \/ OnClose
  \/ \E m \in OnePriceTickerMsgs(now) : OnTickerMessage(m)
  \/ \E x \in SingleExecutionMsgs(now) : OnExecutionsMessage(x)
  \/ \E m \in OnePriceTickerMsgs(now) : FetchResolve(m)
  \/ FetchReject
  \/ Tick

Spec == Init /\ [][Next]_vars

\* The lifecycle alone: no REST response, a clock that stands still, and one
\* payload per channel.
OnTimeTickerMsgs(t) ==
  { m \in TickerMsgs(t) : MomentUnix(m.timestamp) = t /\ m.ltp = 100 }
SingleBuyMsgs(t) ==
  { x \in ExecutionMsgs(t) : Len(x) = 1 /\ x[1].price = 100 /\ x[1].side = "BUY" }

NextLifecycle ==
  \/ \E initThrows \in BOOLEAN : Start(initThrows)
  \/ Stop
  \/ \E i \in Loops : SleepDone(i)
  \/ OnOpen
  \/ OnError
  \/ OnClose
  \/ \E m \in OnTimeTickerMsgs(now) : OnTickerMessage(m)
  \/ \E x \in SingleBuyMsgs(now) : OnExecutionsMessage(x)

SpecLifecycle == Init /\ [][NextLifecycle]_vars

\* The calls and socket events alone, no payload; timers fire: a pending
\* setTimeout callback eventually runs.
NextRetry ==
  \/ \E initThrows \in BOOLEAN : Start(initThrows)
  \/ Stop
  \/ \E i \in Loops : SleepDone(i)
  \/ OnOpen
  \/ OnError
  \/ OnClose

SpecLifecycleFair ==
  Init /\ [][NextRetry]_vars /\ \A i \in Loops : WF_vars(SleepDone(i))

\* A client of either class whose application opens and closes execution
\* windows while tickers and executions arrive; the clock stands still, every
\* ticker is on time and carries the one price between the executions' prices.
NextCapture ==
  \/ Start(FALSE)
  \/ LiquidStart(FALSE)
  \/ OnOpen
  \/ \E m \in OnTimeTickerMsgs(now) : OnTickerMessage(m)
  \/ \E m \in LiquidTickerMsgs : LiquidOnTicker(m)
  \/ \E x \in WindowExecutionMsgs(now) : OnExecutionsMessage(x)
  \/ \E e \in LiquidExecutions(now) : LiquidOnExecution(e)
  \/ \E captureId \in CaptureIds : CreateExecutionCapture(captureId)
  \/ \E captureId \in CaptureIds : RemoveExecutionCapture(captureId)

SpecCapture == InitAny /\ [][NextCapture]_vars

\* The same client with one buy as the only execution payload: what the
\* calls on the table of windows do.
LiquidSingleBuys(t) ==
  { e \in LiquidExecutions(t) : e.price = 105 /\ e.taker_side = "buy" }

NextCalls ==
  \/ Start(FALSE)
  \/ LiquidStart(FALSE)
  \/ OnOpen
  \/ \E m \in OnTimeTickerMsgs(now) : OnTickerMessage(m)
  \/ \E m \in LiquidTickerMsgs : LiquidOnTicker(m)
  \/ \E x \in SingleBuyMsgs(now) : OnExecutionsMessage(x)
  \/ \E e \in LiquidSingleBuys(now) : LiquidOnExecution(e)
  \/ \E captureId \in CaptureIds : CreateExecutionCapture(captureId)
  \/ \E captureId \in CaptureIds : RemoveExecutionCapture(captureId)

SpecCalls == InitAny /\ [][NextCalls]_vars

\* The same client before any ticker, with every side tag at one price as
\* the execution payloads: what the windows' volumes count.
OneExecutionMsgs(t) ==
  { x \in WindowExecutionMsgs(t) : Len(x) = 1 /\ x[1].price = 105 }
LiquidOnePriceExecutions(t) == { e \in LiquidExecutions(t) : e.price = 105 }

NextVolumes ==
  \/ Start(FALSE)
  \/ LiquidStart(FALSE)
  \/ OnOpen
  \/ \E x \in OneExecutionMsgs(now) : OnExecutionsMessage(x)
  \/ \E e \in LiquidOnePriceExecutions(now) : LiquidOnExecution(e)
  \/ \E captureId \in CaptureIds : CreateExecutionCapture(captureId)

SpecVolumes == InitAny /\ [][NextVolumes]_vars

\* ------------------------------------------------------------- properties
\* A step of some _run loop begins a backoff sleep.
BackoffBegins ==
  \/ retryCount' # retryCount
  \/ sleepK' # sleepK
  \/ \E i \in Loops : runPc[i] # "sleeping" /\ runPc'[i] = "sleeping"

\* C1: between two start() calls retryCount never exceeds retryLimit (an
\* _onClose at the limit disables retries and the retry loop exits).
C1_RetryCountWithinLimit == retryCount <= retryConnectLimit

\* C2: retryCount increases only as a consequence of _onClose: since the last
\* start() it has been incremented at most as often as _onClose was called
\* (so it is 0 as long as _onClose was not called).
C2_IncrementsOnlyOnClose ==
  closeCalls < MaxCloses => retryCount <= closeCalls

\* C3: the k-th backoff hands k * baseIntervalMs + 100 to the sleep primitive,
\* whose argument is in milliseconds.
C3_BackoffMilliseconds ==
  sleepK > 0 => sleepMs = sleepK * retryConnectInterval + 100

\* C4: every backoff sleep is preceded by a transport initialization that ran
\* after the previous backoff sleep began.
C4_InitBetweenBackoffs == backoffAfterInit

\* C5: when start() has written status = Terminated, the retry loop that
\* start() began has exited.
C5_TerminatedAfterLoop ==
  status = "Terminated" => runPc[starts] = "exited"

\* C6: apart from start(), status moves only along Initializing -> Initialized
\* -> Connected -> Disconnected -> (Connected | Terminated); in particular
\* nothing leaves Terminated.
StatusOrder ==
  { <<"Initializing", "Initialized">>, <<"Initialized", "Connected">>,
    <<"Connected", "Disconnected">>, <<"Disconnected", "Connected">>,
    <<"Disconnected", "Terminated">> }
C6_StatusOrder ==
  [][starts' = starts =>
       (status' = status \/ <<status, status'>> \in StatusOrder)]_vars

\* C7: after _onError (and until the next start()) retry is false whatever
\* retryCount is, no further backoff begins, and a loop that wakes up exits.
C7_OnErrorEndsRetries ==
  [][(errorSeen' /\ starts' = starts) =>
       /\ ~retry'
       /\ errorSeen =>
            /\ ~BackoffBegins
            /\ \A i \in Loops : runPc'[i] # runPc[i] => runPc'[i] = "exited"]_vars
C7_Witness ==
  /\ errorSeen
  /\ stopCalls = 0
  /\ starts > 0
  /\ runPc[starts] = "exited"

\* C8: after stop() (and until the next start()) retry is false, a further
\* stop() changes nothing, no further backoff begins, and once the timers
\* have fired no retry loop is left sleeping.
C8_StopEndsRetries ==
  /\ [](stopCalls > 0 => ~retry)
  /\ [][(stopCalls > 0 /\ stopCalls' > stopCalls) =>
          UNCHANGED <<lifecycleVars, timeVars, tickerVars, captureVars>>]_vars
  /\ [][(stopCalls > 0 /\ stopCalls' > 0) =>
          /\ ~BackoffBegins
          /\ \A i \in Loops : runPc'[i] # runPc[i] => runPc'[i] = "exited"]_vars
  /\ (stopCalls > 0) ~>
       (stopCalls = 0 \/ \A i \in Loops : runPc[i] # "sleeping")
C8_Witness ==
  /\ stopCalls = MaxStops
  /\ ~errorSeen
  /\ starts > 0
  /\ runPc[starts] = "exited"

\* C9: getLatency() returns max(latency of the cached ticker, milliseconds
\* since the last message), the ticker term being 0 while no ticker is cached.
C9_GetLatencyTotal ==
  GetLatency =
    Returned(MathMax(IF lastTicker = None THEN 0 ELSE lastTicker[1].latency,
                     GetMillisecondFromLastMessage))

\* C10: isAvailable() implies that a ticker has been saved.
C10_AvailableHasTicker == IsAvailable => GetTicker # None

\* C11: once retries are disabled and the retry loop has exited, status is
\* Terminated or Disconnected and isAvailable() is false.
C11_TerminalObservable ==
  (starts > 0 /\ ~retry /\ runPc[starts] = "exited") =>
    (status \in {"Terminated", "Disconnected"} /\ ~IsAvailable)

\* C16: a start() whose transport initialization raises leaves retryCount 0,
\* begins no retry loop and no backoff sleep, and writes neither Connected nor
\* Terminated; with no older loop alive, retryCount then stays as it is and no
\* loop and no backoff begins until the next start().
C16_InitFailureStartsNothing ==
  /\ [][(starts' # starts /\ startOutcome' = "threw") =>
          /\ retryCount' = 0
          /\ runPc' = runPc
          /\ sleepK' = sleepK /\ sleepMs' = sleepMs
          /\ status' \notin {"Connected", "Terminated"}]_vars
  /\ [][(startOutcome = "threw" /\ starts' = starts
            /\ \A i \in Loops : runPc[i] # "sleeping") =>
          (retryCount' = retryCount /\ runPc' = runPc /\ sleepK' = sleepK)]_vars
C16_Witness ==
  /\ startOutcome = "threw"
  /\ retryCount = 0
  /\ status = "Initializing"
  /\ \A i \in Loops : runPc[i] = "idle"

\* C18: at most one retry loop is live (suspended in a backoff sleep) at a time.
C18_SingleLoop ==
  Cardinality({ i \in Loops : runPc[i] = "sleeping" }) <= 1

\* C12: window-widening law, for both adapters: a window seeded with a price
\* that has been handed executions holds the largest of seed and prices as
\* high, the smallest as low, and the last price as close.
C12_WindowWidening ==
  \A id \in DOMAIN executionCaptures :
    (captureHistory[id].seed # None /\ captureHistory[id].count > 0) =>
      /\ executionCaptures[id].high = captureHistory[id].highest
      /\ executionCaptures[id].low = captureHistory[id].lowest
      /\ executionCaptures[id].close = captureHistory[id].last

C14_RemoveIdempotent ==
  /\ [](\A id \in CaptureIds : ENABLED RemoveExecutionCapture(id))
  /\ [][\A id \in CaptureIds :
          RemoveExecutionCapture(id) =>
            /\ DOMAIN executionCaptures' = DOMAIN executionCaptures \ {id}
            /\ \A o \in DOMAIN executionCaptures \ {id} :
                 executionCaptures'[o] = executionCaptures[o]
            /\ lastTicker' = lastTicker
            /\ status' = status /\ ws' = ws /\ retry' = retry
            /\ retryCount' = retryCount
            /\ GetExecutionCapture(id)' = None]_vars
  /\ [][\A id \in CaptureIds :
          (id \notin DOMAIN executionCaptures /\ ~CreateExecutionCapture(id)) =>
            id \notin DOMAIN executionCaptures']_vars

\* A was removed while it had no window, and B holds executions.
C14_Witness ==
  /\ captureCalls["A"] = "absent"
  /\ GetExecutionCapture("A") = None
  /\ "B" \in DOMAIN executionCaptures
  /\ captureHistory["B"].count > 0

\* C15: every inbound event records lastMessageTimestamp first, for both
\* adapters: when a ticker or an execution timestamp is set, so is
\* lastMessageTimestamp, and it is not older than either.
C15_MessageStampCoversChannels ==
  (lastTickerTimestamp # None \/ lastExecutionTimestamp # None) =>
    /\ lastMessageTimestamp # None
    /\ lastTickerTimestamp # None => lastMessageTimestamp[1] >= lastTickerTimestamp[1]
    /\ lastExecutionTimestamp # None =>
         lastMessageTimestamp[1] >= lastExecutionTimestamp[1]

\* C17: createExecutionCapture(id) never raises; on an id that has a window it
\* replaces the window by a freshly seeded one (open, high, low and close the
\* last ticker price, or null without a ticker; start and end null; volumes
\* and filled 0) and leaves every other window unchanged.
C17_CreateReplaces ==
  /\ [](\A id \in CaptureIds : ENABLED CreateExecutionCapture(id))
  /\ [][\A id \in DOMAIN executionCaptures :
          CreateExecutionCapture(id) =>
            LET seed == IF lastTicker = None THEN None ELSE Some(lastTicker[1].ltp)
            IN /\ DOMAIN executionCaptures' = DOMAIN executionCaptures
               /\ executionCaptures'[id] =
                    [start |-> None, end |-> None, open |-> seed, high |-> seed,
                     low |-> seed, close |-> seed, buy_volume |-> 0,
                     sell_volume |-> 0, filled |-> 0]
               /\ \A o \in DOMAIN executionCaptures \ {id} :
                    executionCaptures'[o] = executionCaptures[o]]_vars

\* A was created again over its window after a ticker had arrived, and B
\* holds executions.
C17_Witness ==
  /\ captureCalls["A"] = "replaced"
  /\ "A" \in DOMAIN executionCaptures
  /\ executionCaptures["A"].open = Some(100)
  /\ executionCaptures["A"].start = None
  /\ "B" \in DOMAIN executionCaptures
  /\ captureHistory["B"].count > 0

\* C19: exactly-once ingestion in the Bitflyer client: whatever the number of
\* connect events, the volumes of a window are the summed quantities of the
\* payloads that arrived since its creation, each counted once.
C19_IngestedOnce ==
  adapter = "Bitflyer" =>
    \A id \in DOMAIN executionCaptures :
      /\ executionCaptures[id].buy_volume = captureHistory[id].msgBuy
      /\ executionCaptures[id].sell_volume = captureHistory[id].msgSell

\* C20: OHLC well-formedness: a window whose start is set has non-null open,
\* high, low and close with low <= open <= high and low <= close <= high.
C20_WellFormedOHLC ==
  \A id \in DOMAIN executionCaptures :
    LET w == executionCaptures[id]
    IN w.start # None =>
         /\ w.open # None /\ w.high # None /\ w.low # None /\ w.close # None
         /\ w.low[1] <= w.open[1] /\ w.open[1] <= w.high[1]
         /\ w.low[1] <= w.close[1] /\ w.close[1] <= w.high[1]

====
